---- MODULE Spec2Model ----
(***************************************************************************)
(* Conway's Game of Life, interactive variant (src/game_of_life.py):       *)
(* the GameOfLife engine (grid, generation counter, undo history) and the  *)
(* MainWindow handlers that drive it (timer tick, clicks, pattern          *)
(* placement, load, new game); and the threaded variant with the wrap      *)
(* boundary (src/GameOfLife.py): the globals n and m, main's grid and       *)
(* running flag, and game_of_life.                                         *)
(*                                                                         *)
(* A numpy array is modelled as a record [n, m, a]: n rows, m columns and  *)
(* the cell function a on (0..n-1) \X (0..m-1).  The live grid can be any  *)
(* such array, because load_state stores whatever np.load returns.         *)
(***************************************************************************)
EXTENDS Integers, Sequences, FiniteSets, TLC

\* ------------------------------------------------------------------ bounds
\* The engine is built as GameOfLife(width, height); the model uses a small
\* grid in place of the 50 x 50 default.
Height == 3
Width == 3
\* Spec steps the engine while its generation is below StepGen.
StepGen == 2
\* SpecLong steps the engine while its generation is below MaxGen: one more
\* than the history cap, so that the 51st push and its eviction happen.
MaxGen == 51
\* Undo is explored while the generation is above -NegGen.
NegGen == 2
\* SpecWrap builds grids of 1 .. MaxSide rows and columns
MaxSide == 6
\* and makes up to WrapSteps calls of game_of_life.
WrapSteps == 4
\* SpecStart and SpecClick open windows of 1 .. MaxWin pixels a side.
MaxWin == 3

\* ------------------------------------------------------- program constants
HistoryCap == 50
cell_size == 20

\* ------------------------------------------------------------ numpy arrays
Max(a, b) == IF a >= b THEN a ELSE b
Min(a, b) == IF a <= b THEN a ELSE b

Idx(nr, nc) == (0 .. nr - 1) \X (0 .. nc - 1)

\* np.array(rows) of a literal list of rows
FromRows(rows) ==
    [n |-> Len(rows), m |-> Len(rows[1]),
     a |-> [rc \in Idx(Len(rows), Len(rows[1])) |-> rows[rc[1] + 1][rc[2] + 1]]]

\* np.zeros((nr, nc))
Zeros(nr, nc) == [n |-> nr, m |-> nc, a |-> [rc \in Idx(nr, nc) |-> 0]]

\* g[i, j] with 0 <= i, 0 <= j is defined iff the index is inside the shape
InShape(g, i, j) == 0 <= i /\ i < g.n /\ 0 <= j /\ j < g.m

\* g[i, j] for integer indices of either sign: numpy accepts -n <= i < n
ValidIndex(g, i, j) == -g.n <= i /\ i < g.n /\ -g.m <= j /\ j < g.m
\* and a negative index counts from the end
WrapIndex(i, len) == IF i < 0 THEN i + len ELSE i

\* g with cell (i, j) set to v (in-place write g[i, j] = v)
SetCell(g, i, j, v) == [g EXCEPT !.a[<<i, j>>] = v]

RECURSIVE SumCols(_, _, _, _)
SumCols(g, r, c0, c1) ==
    IF c0 >= c1 THEN 0 ELSE g.a[<<r, c0>>] + SumCols(g, r, c0 + 1, c1)

RECURSIVE SumRows(_, _, _, _, _)
SumRows(g, r0, r1, c0, c1) ==
    IF r0 >= r1 THEN 0 ELSE SumCols(g, r0, c0, c1) + SumRows(g, r0 + 1, r1, c0, c1)

\* np.sum(g[r0:r1, c0:c1]) for r0, c0 >= 0: a slice is clipped to the shape
SliceSum(g, r0, r1, c0, c1) ==
    SumRows(g, Min(r0, g.n), Min(r1, g.n), Min(c0, g.m), Min(c1, g.m))

\* ---------------------------------------------------------------- patterns
PatternNames == {"glider", "block", "beacon", "beehive"}

Patterns(name) ==
    CASE name = "glider"  -> FromRows(<< <<0, 1, 0>>, <<0, 0, 1>>, <<1, 1, 1>> >>)
      [] name = "block"   -> FromRows(<< <<1, 1>>, <<1, 1>> >>)
      [] name = "beacon"  -> FromRows(<< <<1, 1, 0, 0>>, <<1, 1, 0, 0>>,
                                         <<0, 0, 1, 1>>, <<0, 0, 1, 1>> >>)
      [] name = "beehive" -> FromRows(<< <<0, 1, 1, 0>>, <<1, 0, 0, 1>>,
                                         <<0, 1, 1, 0>> >>)

\* ------------------------------------------------------------------- state
VARIABLES
    grid,         \* GameOfLife.grid
    generation,   \* GameOfLife.generation
    history,      \* GameOfLife.history, oldest first
    timerActive,  \* MainWindow.timer.isActive()
    op,           \* the operation that produced this state
    ret,          \* its return value ("none" when it returns nothing)
    err,          \* the exception it raised to its caller ("none" when none)
    arg,          \* its arguments (the file's array for load_state; for
                  \* new_game, which takes none, the timer state, the
                  \* generation and the history length it was called with)
    prev,         \* grid and generation before the operation, kept for
                  \* update_game and toggle_cell, and the operation it came
                  \* after, kept for those two and undo
    run,          \* the steps, then undos, made in a row since the engine
                  \* was fresh, with the grid of every generation
    shared,       \* positions of the history whose array is the very object
                  \* self.grid is bound to (in-place writes reach them)
    edits         \* number of edits of the grid since the engine was built

\* src/GameOfLife.py, the threaded variant with the wrap boundary
VARIABLES
    n,            \* global n: number of rows game_of_life loops over
    m,            \* global m: number of columns
    wgrid,        \* main's local grid
    running,      \* main's local running flag
    wsteps,       \* number of game_of_life calls made by the loop
    placed,       \* origin of the glider the grid was clicked into at the
                  \* start (<< >> when it was not)
    wcell,        \* main's local cell_size
    x_size,       \* main's local x_size
    y_size,       \* main's local y_size
    werr,         \* the exception that ended the thread ("none" while it runs)
    wop,          \* the last thing that happened in this variant
    warg          \* its inputs

gvars == <<grid, generation, history, timerActive, op, ret, err, arg, prev, run,
           shared, edits>>
wvars == <<n, m, wgrid, running, wsteps, placed, wcell, x_size, y_size, werr, wop, warg>>
vars == <<gvars, wvars>>

NoPrev == [grid |-> Zeros(0, 0), generation |-> 0, set |-> FALSE, after |-> "none"]

NoRun == [valid |-> FALSE, k |-> 0, u |-> 0, gens |-> << >>]
FreshRun(g) == [valid |-> TRUE, k |-> 0, u |-> 0, gens |-> <<g>>]
\* the record of an operation that is neither a step nor an undo and leaves
\* grid g, history h and generation gen
RunAfter(g, h, gen) == IF h = << >> /\ gen = 0 THEN FreshRun(g) ELSE NoRun

\* ------------------------------------------------------ GameOfLife.update
\* (faulty variant: the cell itself is counted)
CountNeighborsNoSub(g, i, j) ==
    SliceSum(g, Max(0, i - 1), Min(Height, i + 2), Max(0, j - 1), Min(Width, j + 2))

\* _count_neighbors(i, j): the clipped 3 x 3 window minus the cell itself
CountNeighbors(g, i, j) ==
    SliceSum(g, Max(0, i - 1), Min(Height, i + 2), Max(0, j - 1), Min(Width, j + 2))
        - g.a[<<i, j>>]

\* the value update() leaves in new_grid[i, j]
NextCell(g, i, j) ==
    LET neighbors == CountNeighbors(g, i, j) IN
    IF g.a[<<i, j>>] # 0
    THEN IF neighbors < 2 \/ neighbors > 3 THEN 0 ELSE g.a[<<i, j>>]
    ELSE IF neighbors = 3 THEN 1 ELSE g.a[<<i, j>>]

\* the loops over range(height) x range(width) index self.grid[i, j]:
\* an index outside the array's shape raises IndexError
UpdateRaises(g) == \E i \in 0 .. Height - 1, j \in 0 .. Width - 1 : ~InShape(g, i, j)

\* new_grid after the loops: a copy of g with the height x width cells replaced
NewGrid(g) ==
    [g EXCEPT !.a = [rc \in Idx(g.n, g.m) |->
        IF rc[1] < Height /\ rc[2] < Width THEN NextCell(g, rc[1], rc[2])
        ELSE g.a[rc]]]

\* (faulty variant: the newest snapshot is dropped instead of the oldest)
PushHistoryNewest(h, g) ==
    LET h1 == Append(h, g) IN
    IF Len(h1) > HistoryCap THEN SubSeq(h1, 1, Len(h1) - 1) ELSE h1

\* (faulty variant: no cap)
PushHistoryNoCap(h, g) == Append(h, g)

\* history.append(grid.copy()), then history.pop(0) when more than 50 long
PushHistory(h, g) ==
    LET h1 == Append(h, g) IN
    IF Len(h1) > HistoryCap THEN Tail(h1) ELSE h1

\* (faulty variant: history.append(self.grid), the snapshot is the live array)
SharedAfterPushNoCopy(sh, h) ==
    (IF Len(h) + 1 > HistoryCap THEN {k - 1 : k \in sh \ {1}} ELSE sh)
        \cup {Min(Len(h) + 1, HistoryCap)}

\* The positions that share the live array after the push onto history h:
\* grid.copy() is a new array, so the appended entry is not one of them, and
\* pop(0) moves every entry down by one.
SharedAfterPush(sh, h) ==
    IF Len(h) + 1 > HistoryCap THEN {k - 1 : k \in sh \ {1}} ELSE sh

\* the history after an in-place write that leaves the live array as g
InPlace(h, sh, g) == IF sh = {} THEN h ELSE [k \in DOMAIN h |-> IF k \in sh THEN g ELSE h[k]]

\* GameView.draw_grid reads game.grid[i, j] for every i < height, j < width
DrawRaises(g) == \E i \in 0 .. Height - 1, j \in 0 .. Width - 1 : ~InShape(g, i, j)

DrawErr(g) == IF DrawRaises(g) THEN "IndexError" ELSE "none"

\* the shape and the values GameOfLife.__init__ gives the grid
IsGrid(g) == g.n = Height /\ g.m = Width /\ \A rc \in Idx(g.n, g.m) : g.a[rc] \in {0, 1}

\* ------------------------------------------------------------- operations
\* MainWindow.update_game: the timer's timeout slot, GameOfLife.update and
\* then the redraw.  update() appends to the history before its loops run,
\* so an IndexError in the loops leaves the snapshot pushed, the grid and the
\* generation as they were.
UpdateGame ==
    /\ timerActive
    /\ history' = PushHistory(history, grid)
    /\ IF UpdateRaises(grid)
       THEN grid' = grid /\ generation' = generation /\ err' = "IndexError"
       ELSE grid' = NewGrid(grid) /\ generation' = generation + 1
            /\ err' = DrawErr(NewGrid(grid))
    /\ op' = "update_game" /\ ret' = "none" /\ arg' = << >>
    /\ prev' = [grid |-> grid, generation |-> generation, set |-> TRUE, after |-> op]
    /\ run' = IF ~UpdateRaises(grid) /\ run.valid /\ run.u = 0 /\ run.k <= HistoryCap
              THEN [run EXCEPT !.k = @ + 1, !.gens = Append(@, NewGrid(grid))]
              ELSE NoRun
    /\ shared' = IF UpdateRaises(grid) THEN SharedAfterPush(shared, history) ELSE {}
    /\ UNCHANGED <<timerActive, edits>>

\* (faulty variant: no test of the history being empty)
UndoNoGuard ==
    /\ grid' = IF history # << >> THEN history[Len(history)] ELSE Zeros(Height, Width)
    /\ history' = IF history # << >> THEN SubSeq(history, 1, Len(history) - 1) ELSE history
    /\ generation' = generation - 1
    /\ ret' = "True" /\ err' = "none"
    /\ op' = "undo" /\ arg' = << >>
    /\ prev' = [NoPrev EXCEPT !.after = op]
    /\ run' = IF history' = << >> /\ generation' = 0 THEN FreshRun(grid')
              ELSE IF run.valid /\ run.k = HistoryCap + 1 /\ run.u <= HistoryCap
                   THEN [run EXCEPT !.u = @ + 1] ELSE NoRun
    /\ shared' = IF history = << >> THEN shared
                 ELSE IF Len(history) \in shared THEN shared \ {Len(history)} ELSE {}
    /\ UNCHANGED <<timerActive, edits>>

\* GameOfLife.undo, as called by MainWindow.undo_action (which redraws after
\* a successful undo)
Undo ==
    /\ IF history # << >>
       THEN /\ grid' = history[Len(history)]
            /\ history' = SubSeq(history, 1, Len(history) - 1)
            /\ generation' = generation - 1
            /\ ret' = "True"
            /\ err' = DrawErr(history[Len(history)])
       ELSE /\ UNCHANGED <<grid, history, generation>>
            /\ ret' = "False"
            /\ err' = "none"
    /\ op' = "undo" /\ arg' = << >>
    /\ prev' = [NoPrev EXCEPT !.after = op]
    /\ run' = IF history' = << >> /\ generation' = 0 THEN FreshRun(grid')
              ELSE IF run.valid /\ run.k = HistoryCap + 1 /\ run.u <= HistoryCap
                   THEN [run EXCEPT !.u = @ + 1] ELSE NoRun
    /\ shared' = IF history = << >> THEN shared
                 ELSE IF Len(history) \in shared THEN shared \ {Len(history)} ELSE {}
    /\ UNCHANGED <<timerActive, edits>>

\* (faulty variant: no bounds test, the array is indexed as numpy does)
ToggleCellNoGuard(i, j) ==
    /\ IF ValidIndex(grid, i, j)
       THEN grid' = SetCell(grid, WrapIndex(i, grid.n), WrapIndex(j, grid.m),
                            IF grid.a[<<WrapIndex(i, grid.n), WrapIndex(j, grid.m)>>] = 0
                            THEN 1 ELSE 0)
            /\ err' = "none"
       ELSE grid' = grid /\ err' = "IndexError"
    /\ op' = "toggle_cell" /\ ret' = "none"
    /\ arg' = <<i, j>>
    /\ prev' = [grid |-> grid, generation |-> generation, set |-> TRUE, after |-> op]
    /\ history' = InPlace(history, shared, grid')
    /\ run' = RunAfter(grid', history, generation)
    /\ edits' = edits + 1
    /\ UNCHANGED <<generation, timerActive, shared>>

\* (faulty variant: the cell is set alive instead of inverted)
ToggleCellSet(i, j) ==
    /\ IF 0 <= i /\ i < Height /\ 0 <= j /\ j < Width
       THEN IF InShape(grid, i, j)
            THEN grid' = SetCell(grid, i, j, 1) /\ err' = "none"
            ELSE grid' = grid /\ err' = "IndexError"
       ELSE grid' = grid /\ err' = "none"
    /\ op' = "toggle_cell" /\ ret' = "none"
    /\ arg' = <<i, j>>
    /\ prev' = [grid |-> grid, generation |-> generation, set |-> TRUE, after |-> op]
    /\ history' = InPlace(history, shared, grid')
    /\ run' = RunAfter(grid', history, generation)
    /\ edits' = edits + 1
    /\ UNCHANGED <<generation, timerActive, shared>>

\* (faulty variant: the edit is recorded, the grid before it pushed onto the
\* history)
ToggleCellRecorded(i, j) ==
    /\ IF 0 <= i /\ i < Height /\ 0 <= j /\ j < Width
       THEN IF InShape(grid, i, j)
            THEN grid' = SetCell(grid, i, j, IF grid.a[<<i, j>>] = 0 THEN 1 ELSE 0)
                 /\ err' = "none"
            ELSE grid' = grid /\ err' = "IndexError"
       ELSE grid' = grid /\ err' = "none"
    /\ op' = "toggle_cell" /\ ret' = "none"
    /\ arg' = <<i, j>>
    /\ prev' = [grid |-> grid, generation |-> generation, set |-> TRUE, after |-> op]
    /\ history' = PushHistory(history, grid)
    /\ run' = NoRun
    /\ edits' = edits + 1
    /\ UNCHANGED <<generation, timerActive, shared>>

\* GameOfLife.toggle_cell(i, j): the bounds test uses the engine's height and
\* width; inside it the array is indexed, and `not` maps 0 to 1 and anything
\* else to 0
ToggleCell(i, j) ==
    /\ IF 0 <= i /\ i < Height /\ 0 <= j /\ j < Width
       THEN IF InShape(grid, i, j)
            THEN grid' = SetCell(grid, i, j, IF grid.a[<<i, j>>] = 0 THEN 1 ELSE 0)
                 /\ err' = "none"
            ELSE grid' = grid /\ err' = "IndexError"
       ELSE grid' = grid /\ err' = "none"
    /\ op' = "toggle_cell" /\ ret' = "none"
    /\ arg' = <<i, j>>
    /\ prev' = [grid |-> grid, generation |-> generation, set |-> TRUE, after |-> op]
    /\ history' = InPlace(history, shared, grid')
    /\ run' = RunAfter(grid', history, generation)
    /\ edits' = edits + 1
    /\ UNCHANGED <<generation, timerActive, shared>>

\* MainWindow.handle_cell_click(i, j, is_left): self.game.grid[i, j] = 1 or 0
\* with numpy's indexing (no bounds test of its own), then the redraw
HandleCellClick(i, j, is_left) ==
    /\ IF ValidIndex(grid, i, j)
       THEN grid' = SetCell(grid, WrapIndex(i, grid.n), WrapIndex(j, grid.m),
                            IF is_left THEN 1 ELSE 0)
            /\ err' = DrawErr(grid)
       ELSE grid' = grid /\ err' = "IndexError"
    /\ op' = "handle_cell_click" /\ ret' = "none"
    /\ arg' = <<i, j, is_left>>
    /\ prev' = NoPrev
    /\ history' = InPlace(history, shared, grid')
    /\ run' = RunAfter(grid', history, generation)
    /\ edits' = edits + 1
    /\ UNCHANGED <<generation, timerActive, shared>>

\* GameView.mousePressEvent: scene position (x, y) to cell (row, column) by
\* floor division, emitted to handle_cell_click
CellIndex(p) == p \div cell_size

MousePressEvent(y, x, is_left) == HandleCellClick(CellIndex(y), CellIndex(x), is_left)

\* (faulty variant: clear also resets the generation and the history)
ClearGameResets ==
    /\ grid' = [grid EXCEPT !.a = [rc \in Idx(grid.n, grid.m) |-> 0]]
    /\ generation' = 0
    /\ history' = << >>
    /\ err' = DrawErr(grid)
    /\ op' = "clear" /\ ret' = "none" /\ arg' = << >>
    /\ prev' = NoPrev
    /\ run' = RunAfter(grid', history', generation')
    /\ shared' = {}
    /\ edits' = edits + 1
    /\ UNCHANGED timerActive

\* MainWindow.clear_game: grid.fill(0) in place, then the redraw
ClearGame ==
    /\ grid' = [grid EXCEPT !.a = [rc \in Idx(grid.n, grid.m) |-> 0]]
    /\ err' = DrawErr(grid)
    /\ op' = "clear" /\ ret' = "none" /\ arg' = << >>
    /\ prev' = NoPrev
    /\ history' = InPlace(history, shared, grid')
    /\ run' = RunAfter(grid', history, generation)
    /\ edits' = edits + 1
    /\ UNCHANGED <<generation, timerActive, shared>>

\* MainWindow.randomize_game: a new height x width array of 0s and 1s
RandomizeGame(g) ==
    /\ grid' = g
    /\ err' = "none"
    /\ op' = "randomize" /\ ret' = "none" /\ arg' = << >>
    /\ prev' = NoPrev
    /\ run' = RunAfter(grid', history, generation)
    /\ shared' = {}
    /\ edits' = edits + 1
    /\ UNCHANGED <<generation, history, timerActive>>

\* MainWindow.load_state with a file chosen: the grid becomes the array in
\* the file, whatever its shape and values; nothing else is reset
LoadState(f) ==
    /\ grid' = f
    /\ err' = DrawErr(f)
    /\ op' = "load_state" /\ ret' = "none"
    /\ arg' = <<f>>
    /\ prev' = NoPrev
    /\ run' = RunAfter(grid', history, generation)
    /\ shared' = {}
    /\ edits' = edits + 1
    /\ UNCHANGED <<generation, history, timerActive>>

\* (faulty variant: the timer is left as it is)
NewGameKeepsTimer ==
    /\ grid' = Zeros(Height, Width)
    /\ generation' = 0
    /\ history' = << >>
    /\ op' = "new_game" /\ ret' = "none" /\ err' = "none"
    /\ arg' = <<timerActive, generation, Len(history)>>
    /\ prev' = NoPrev
    /\ run' = FreshRun(Zeros(Height, Width))
    /\ shared' = {}
    /\ edits' = 0
    /\ UNCHANGED timerActive

\* MainWindow.new_game: a new GameOfLife(), timer stopped
NewGame ==
    /\ grid' = Zeros(Height, Width)
    /\ generation' = 0
    /\ history' = << >>
    /\ timerActive' = FALSE
    /\ op' = "new_game" /\ ret' = "none" /\ err' = "none"
    /\ arg' = <<timerActive, generation, Len(history)>>
    /\ prev' = NoPrev
    /\ run' = FreshRun(Zeros(Height, Width))
    /\ shared' = {}
    /\ edits' = 0

\* (faulty variant: the timer is started whether or not it is active)
ToggleGameNoStop ==
    /\ timerActive' = TRUE
    /\ op' = "toggle_game" /\ ret' = "none" /\ err' = "none" /\ arg' = << >>
    /\ prev' = NoPrev
    /\ run' = RunAfter(grid, history, generation)
    /\ UNCHANGED <<grid, generation, history, shared, edits>>

\* MainWindow.toggle_game: start or stop the timer
ToggleGame ==
    /\ timerActive' = ~timerActive
    /\ op' = "toggle_game" /\ ret' = "none" /\ err' = "none" /\ arg' = << >>
    /\ prev' = NoPrev
    /\ run' = RunAfter(grid, history, generation)
    /\ UNCHANGED <<grid, generation, history, shared, edits>>

\* (faulty variant: the far edge is not clamped)
ClampOriginNoMin(t, size, extent) == Max(0, t)

\* max(0, min(i, self.game.height - height))
ClampOrigin(t, size, extent) == Max(0, Min(t, extent - size))

\* MainWindow.apply_pattern(pattern) with the view centred on cell (ci, cj):
\* the origin is the centre moved back by half the pattern, clamped with the
\* engine's height and width; the slice assignment clips the destination to
\* the array and raises ValueError when the pattern does not broadcast to it

ApplyPattern(name, ci, cj) ==
    LET pat == Patterns(name)
        height == pat.n
        width == pat.m
        i == ClampOrigin(ci - height \div 2, height, Height)
        j == ClampOrigin(cj - width \div 2, width, Width)
        r0 == Min(i, grid.n)
        r1 == Min(i + height, grid.n)
        c0 == Min(j, grid.m)
        c1 == Min(j + width, grid.m)
        broadcasts == /\ (height = r1 - r0 \/ height = 1)
                      /\ (width = c1 - c0 \/ width = 1)
        patched == [grid EXCEPT !.a = [rc \in Idx(grid.n, grid.m) |->
                      IF r0 <= rc[1] /\ rc[1] < r1 /\ c0 <= rc[2] /\ rc[2] < c1
                      THEN pat.a[<<IF height = 1 THEN 0 ELSE rc[1] - r0,
                                   IF width = 1 THEN 0 ELSE rc[2] - c0>>]
                      ELSE grid.a[rc]]]
    IN
    /\ IF broadcasts
       THEN grid' = patched /\ err' = DrawErr(grid)
       ELSE grid' = grid /\ err' = "ValueError"
    /\ op' = "apply_pattern" /\ ret' = "none"
    /\ arg' = <<name, ci, cj>>
    /\ prev' = NoPrev
    /\ history' = InPlace(history, shared, grid')
    /\ run' = RunAfter(grid', history, generation)
    /\ edits' = edits + 1
    /\ UNCHANGED <<generation, timerActive, shared>>

\* ------------------------------------------------------------------ inputs
\* rows and columns handed to toggle_cell
ToggleRows == -1 .. Height
ToggleCols == -1 .. Width
\* scene positions of a mouse press: inside the grid, and up to one grid
\* size before it and one cell after it
ClickYs == {k * cell_size + 7 : k \in -(Height + 1) .. Height}
ClickXs == {k * cell_size + 7 : k \in -(Width + 1) .. Width}
\* cells the view can be centred on
CentreRows == -1 .. Height + 1
CentreCols == -1 .. Width + 1
\* arrays np.random.choice can return
RandomGrids ==
    { [n |-> Height, m |-> Width, a |-> [rc \in Idx(Height, Width) |-> 1]],
      [n |-> Height, m |-> Width, a |-> [rc \in Idx(Height, Width) |-> (rc[1] + rc[2]) % 2]],
      [n |-> Height, m |-> Width, a |-> [rc \in Idx(Height, Width) |-> IF rc[1] = rc[2] THEN 1 ELSE 0]] }
\* arrays a .npy file can hold: a saved grid (row 1 alive), one with a value
\* that is neither 0 nor 1, and one smaller than the engine's grid
SavedFile == [n |-> Height, m |-> Width, a |-> [rc \in Idx(Height, Width) |-> IF rc[1] = 1 THEN 1 ELSE 0]]
NonBinaryFile == [n |-> Height, m |-> Width, a |-> [rc \in Idx(Height, Width) |-> IF rc = <<0, 0>> THEN 2 ELSE 0]]
SmallFile == FromRows(<< <<1>> >>)
LoadFiles == {SavedFile, NonBinaryFile, SmallFile}

\* grids a fresh engine is clicked into before anything else happens: every
\* choice of alive cells among these cells
SeedCells == {<<0, 0>>, <<0, 1>>, <<0, 2>>, <<1, 0>>, <<1, 1>>, <<1, 2>>,
              <<2, 0>>, <<2, 1>>, <<2, 2>>}
GridOf(alive) ==
    [n |-> Height, m |-> Width,
     a |-> [rc \in Idx(Height, Width) |-> IF rc \in alive THEN 1 ELSE 0]]
SeedGrids == {GridOf(alive) : alive \in SUBSET (SeedCells \cap Idx(Height, Width))}

\* ----------------------------------------------------------- specification
\* MainWindow.__init__ builds GameOfLife() (zero grid, generation 0, empty
\* history) and a stopped timer; the clicks that follow change the grid only.
\* Init is that engine clicked into any seed grid.  Next allows one more edit
\* of any kind, then the timer steps the engine up to generation StepGen, with
\* undo at any time.
\* no main() thread of the other variant has been started
NoThread ==
    /\ n = 0 /\ m = 0
    /\ wgrid = Zeros(0, 0)
    /\ running = FALSE
    /\ wsteps = 0
    /\ placed = << >>
    /\ wcell = 0 /\ x_size = 0 /\ y_size = 0
    /\ werr = "none" /\ wop = "none" /\ warg = << >>

Init ==
    /\ grid \in SeedGrids
    /\ generation = 0
    /\ history = << >>
    /\ timerActive = FALSE
    /\ op = "init" /\ ret = "none" /\ err = "none" /\ arg = << >>
    /\ prev = NoPrev
    /\ run = FreshRun(grid)
    /\ shared = {}
    /\ edits = 0
    /\ NoThread

Unedited == op = "init"

Next ==
    \/ Unedited /\ \E i \in ToggleRows, j \in ToggleCols : ToggleCell(i, j) /\ UNCHANGED wvars
    \/ Unedited /\ \E y \in ClickYs, x \in ClickXs, l \in BOOLEAN : MousePressEvent(y, x, l) /\ UNCHANGED wvars
    \/ Unedited /\ \E p \in PatternNames, ci \in CentreRows, cj \in CentreCols :
                    ApplyPattern(p, ci, cj) /\ UNCHANGED wvars
    \/ Unedited /\ ClearGame /\ UNCHANGED wvars
    \/ Unedited /\ \E g \in RandomGrids : RandomizeGame(g) /\ UNCHANGED wvars
    \/ Unedited /\ \E f \in LoadFiles : LoadState(f) /\ UNCHANGED wvars
    \/ generation < StepGen /\ UpdateGame /\ UNCHANGED wvars
    \/ generation > -NegGen /\ Undo /\ UNCHANGED wvars
    \/ ToggleGame /\ UNCHANGED wvars
    \/ NewGame /\ UNCHANGED wvars

Spec == Init /\ [][Next]_vars

\* ---------------------------------------------------- long-run specification
\* The same engine run up to generation MaxGen, so that the history fills and
\* evicts; the inputs of the one edit are a few of each kind.
LongSeeds == {GridOf({}), GridOf({<<1, 0>>, <<1, 1>>, <<1, 2>>}),
              GridOf({<<0, 1>>, <<1, 2>>, <<2, 0>>, <<2, 1>>, <<2, 2>>})}
LongCells == {<<0, 0>>, <<1, 1>>, <<-1, 0>>}
LongClicks == {<<7, 7>>, <<27, 27>>, <<-13, 7>>}
LongPatterns == {"block", "beacon"}

InitLong ==
    /\ grid \in LongSeeds
    /\ generation = 0
    /\ history = << >>
    /\ timerActive = FALSE
    /\ op = "init" /\ ret = "none" /\ err = "none" /\ arg = << >>
    /\ prev = NoPrev
    /\ run = FreshRun(grid)
    /\ shared = {}
    /\ edits = 0
    /\ NoThread

NextLong ==
    \/ Unedited /\ \E c \in LongCells : ToggleCell(c[1], c[2]) /\ UNCHANGED wvars
    \/ Unedited /\ \E c \in LongClicks, l \in BOOLEAN : MousePressEvent(c[1], c[2], l) /\ UNCHANGED wvars
    \/ Unedited /\ \E p \in LongPatterns : ApplyPattern(p, 1, 1) /\ UNCHANGED wvars
    \/ Unedited /\ ClearGame /\ UNCHANGED wvars
    \/ Unedited /\ \E g \in RandomGrids : RandomizeGame(g) /\ UNCHANGED wvars
    \/ Unedited /\ \E f \in LoadFiles : LoadState(f) /\ UNCHANGED wvars
    \/ generation < MaxGen /\ UpdateGame /\ UNCHANGED wvars
    \/ generation > -NegGen /\ Undo /\ UNCHANGED wvars
    \/ ToggleGame /\ UNCHANGED wvars
    \/ NewGame /\ UNCHANGED wvars

SpecLong == InitLong /\ [][NextLong]_vars

\* ------------------------------------------------------ edit specification
\* The engine stepped up to generation StepGen with undo at any time, and
\* edited at any point of that: one edit of any kind, which can be followed
\* by one more in-place edit (the same cell toggled again, a click, a clear
\* or a block).
EditSeeds == LongSeeds \cup RandomGrids
EditCentres == {<<-1, -1>>, <<1, 1>>, <<Height, Width>>}

InitEdit ==
    /\ grid \in EditSeeds
    /\ generation = 0
    /\ history = << >>
    /\ timerActive = FALSE
    /\ op = "init" /\ ret = "none" /\ err = "none" /\ arg = << >>
    /\ prev = NoPrev
    /\ run = FreshRun(grid)
    /\ shared = {}
    /\ edits = 0
    /\ NoThread

NextEdit ==
    \/ edits = 0 /\ \E i \in ToggleRows, j \in ToggleCols : ToggleCell(i, j) /\ UNCHANGED wvars
    \/ edits = 0 /\ \E c \in LongClicks, l \in BOOLEAN : MousePressEvent(c[1], c[2], l) /\ UNCHANGED wvars
    \/ edits = 0 /\ \E p \in PatternNames, c \in EditCentres : ApplyPattern(p, c[1], c[2]) /\ UNCHANGED wvars
    \/ edits = 0 /\ ClearGame /\ UNCHANGED wvars
    \/ edits = 0 /\ \E g \in RandomGrids : RandomizeGame(g) /\ UNCHANGED wvars
    \/ edits = 0 /\ \E f \in LoadFiles : LoadState(f) /\ UNCHANGED wvars
    \/ edits = 1 /\ op = "toggle_cell" /\ ToggleCell(arg[1], arg[2]) /\ UNCHANGED wvars
    \/ edits = 1 /\ \E c \in LongClicks, l \in BOOLEAN : MousePressEvent(c[1], c[2], l) /\ UNCHANGED wvars
    \/ edits = 1 /\ ClearGame /\ UNCHANGED wvars
    \/ edits = 1 /\ ApplyPattern("block", 1, 1) /\ UNCHANGED wvars
    \/ generation < StepGen /\ UpdateGame /\ UNCHANGED wvars
    \/ generation > -NegGen /\ Undo /\ UNCHANGED wvars
    \/ ToggleGame /\ UNCHANGED wvars
    \/ NewGame /\ UNCHANGED wvars

SpecEdit == InitEdit /\ [][NextEdit]_vars

\* ============================================= threaded variant, wrap boundary
\* src/GameOfLife.py: main() sets the globals n and m, builds its grid with
\* shape (n, m) and loops over events and, while running, game_of_life.

\* grid[r, c] with numpy's indexing: a negative index counts from the end
At(g, r, c) == g.a[<<WrapIndex(r, g.n), WrapIndex(c, g.m)>>]

\* (faulty variant: the row above and the column to the left are clamped at
\* the edge instead of wrapping)
neighborsNoWrap(g, i, j) ==
    At(g, Max(0, i - 1), Max(0, j - 1)) + At(g, Max(0, i - 1), j)
        + At(g, Max(0, i - 1), (j + 1) % m)
        + At(g, i, Max(0, j - 1)) + At(g, i, (j + 1) % m)
        + At(g, (i + 1) % n, Max(0, j - 1)) + At(g, (i + 1) % n, j)
        + At(g, (i + 1) % n, (j + 1) % m)

\* the sum of the eight reads of game_of_life for cell (i, j), with the
\* globals n and m in the two `%`
neighbors(g, i, j) ==
    At(g, i - 1, j - 1) + At(g, i - 1, j) + At(g, i - 1, (j + 1) % m)
        + At(g, i, j - 1) + At(g, i, (j + 1) % m)
        + At(g, (i + 1) % n, j - 1) + At(g, (i + 1) % n, j)
        + At(g, (i + 1) % n, (j + 1) % m)

\* game_of_life(grid): new_grid after the loops over range(n) x range(m)
game_of_life(g) ==
    [g EXCEPT !.a = [rc \in Idx(g.n, g.m) |->
        IF rc[1] < n /\ rc[2] < m
        THEN IF g.a[rc] = 1
             THEN IF neighbors(g, rc[1], rc[2]) < 2 \/ neighbors(g, rc[1], rc[2]) > 3
                  THEN 0 ELSE g.a[rc]
             ELSE IF neighbors(g, rc[1], rc[2]) = 3 THEN 1 ELSE g.a[rc]
        ELSE g.a[rc]]]

\* the drawing loops of main read grid[i, j] for i in range(n), j in range(m)
\* with the globals as they are now: an index outside the thread's own grid
\* raises IndexError, which ends the thread
DrawLoopRaises(g) == \E i \in 0 .. n - 1, j \in 0 .. m - 1 : ~InShape(g, i, j)

\* main's loop body while running: the grid is drawn, then
\* grid = game_of_life(grid).  When the drawing loops pass, every read of
\* game_of_life is inside the array.  The call is taken as one step with the
\* n and m of its start.
MainLoopStep ==
    /\ werr = "none"
    /\ running
    /\ IF DrawLoopRaises(wgrid)
       THEN wgrid' = wgrid /\ werr' = "IndexError" /\ wop' = "draw"
            /\ wsteps' = wsteps
       ELSE wgrid' = game_of_life(wgrid) /\ werr' = "none" /\ wop' = "game_of_life"
            /\ wsteps' = wsteps + 1
    /\ warg' = << >>
    /\ UNCHANGED <<n, m, running, placed, wcell, x_size, y_size>>

\* main's loop body while not running: the grid is drawn
MainLoopIdle ==
    /\ werr = "none"
    /\ ~running
    /\ werr' = IF DrawLoopRaises(wgrid) THEN "IndexError" ELSE "none"
    /\ wop' = "draw" /\ warg' = << >>
    /\ UNCHANGED <<n, m, wgrid, running, wsteps, placed, wcell, x_size, y_size>>

\* MOUSEBUTTONDOWN with button 2: running = True
MiddleButton ==
    /\ werr = "none"
    /\ running' = TRUE
    /\ wop' = "middle_button" /\ warg' = << >>
    /\ UNCHANGED <<n, m, wgrid, wsteps, placed, wcell, x_size, y_size, werr>>

\* KEYDOWN with K_SPACE: running = False
SpaceKey ==
    /\ werr = "none"
    /\ running' = FALSE
    /\ wop' = "space" /\ warg' = << >>
    /\ UNCHANGED <<n, m, wgrid, wsteps, placed, wcell, x_size, y_size, werr>>

\* MOUSEBUTTONDOWN with button 1 or 3 at window position (px, py):
\* i, j = pos[0]//cell_size, pos[1]//cell_size and grid[i, j] = 1 or 0, with
\* no test of i and j
MouseButtonDown(px, py, button) ==
    LET i == px \div wcell
        j == py \div wcell
    IN
    /\ werr = "none"
    /\ IF ValidIndex(wgrid, i, j)
       THEN wgrid' = SetCell(wgrid, WrapIndex(i, wgrid.n), WrapIndex(j, wgrid.m),
                             IF button = 1 THEN 1 ELSE 0)
            /\ werr' = "none"
       ELSE wgrid' = wgrid /\ werr' = "IndexError"
    /\ wop' = "mousebuttondown" /\ warg' = <<px, py, button>>
    /\ placed' = << >>
    /\ UNCHANGED <<n, m, running, wsteps, wcell, x_size, y_size>>

\* MOUSEMOTION at (px, py) with the left (b0) and right (b2) buttons held or
\* not: the write of 1, then the write of 0, each under
\* `x_size > i*cell_size and y_size > j*cell_size and i>-1 and j>-1`
MouseMotion(px, py, b0, b2) ==
    LET i == px \div wcell
        j == py \div wcell
        writes == /\ (b0 \/ b2)
                  /\ x_size > i * wcell /\ y_size > j * wcell /\ i > -1 /\ j > -1
    IN
    /\ werr = "none"
    /\ IF writes
       THEN IF ValidIndex(wgrid, i, j)
            THEN wgrid' = SetCell(wgrid, WrapIndex(i, wgrid.n), WrapIndex(j, wgrid.m),
                                  IF b2 THEN 0 ELSE 1)
                 /\ werr' = "none"
            ELSE wgrid' = wgrid /\ werr' = "IndexError"
       ELSE wgrid' = wgrid /\ werr' = "none"
    /\ wop' = "mousemotion" /\ warg' = <<px, py, b0, b2>>
    /\ placed' = << >>
    /\ UNCHANGED <<n, m, running, wsteps, wcell, x_size, y_size>>

\* The Start button pressed again with cell size cs and window xs x ys:
\* thread_it(main) starts another main(), which assigns the globals n and m
\* and builds a grid of its own; the locals of the thread already running
\* are not touched.
StartAgain(cs, xs, ys) ==
    /\ n' = xs \div cs
    /\ m' = ys \div cs
    /\ wop' = "start" /\ warg' = <<cs, xs, ys>>
    /\ UNCHANGED <<wgrid, running, wsteps, placed, wcell, x_size, y_size, werr>>

\* the grid of nr x nc cells with the glider pattern's alive cells at origin
\* (r, c), rows and columns taken modulo the grid's size
GliderAt(nr, nc, r, c) ==
    [n |-> nr, m |-> nc,
     a |-> [rc \in Idx(nr, nc) |->
              IF \E d \in Idx(Patterns("glider").n, Patterns("glider").m) :
                    /\ Patterns("glider").a[d] = 1
                    /\ rc = <<(r + d[1]) % nr, (c + d[2]) % nc>>
              THEN 1 ELSE 0]]

\* cells whose every choice of alive ones is a grid np.random.choice returns
WrapSeedCells == {<<0, 0>>, <<0, 1>>, <<0, 2>>, <<1, 0>>, <<1, 1>>, <<1, 2>>}

\* no MainWindow of the other variant is in use
NoWindow ==
    /\ grid = Zeros(Height, Width)
    /\ generation = 0
    /\ history = << >>
    /\ timerActive = FALSE
    /\ op = "init" /\ ret = "none" /\ err = "none" /\ arg = << >>
    /\ prev = NoPrev
    /\ run = FreshRun(Zeros(Height, Width))
    /\ shared = {}
    /\ edits = 0

\* main() up to its loop, started with cell size 1: n and m from the sizes
\* entered, the grid a random matrix of that shape, or an all-dead one
\* clicked into a glider; running is False
InitWrap ==
    /\ n \in 1 .. MaxSide
    /\ m \in 1 .. MaxSide
    /\ \/ /\ \E alive \in SUBSET (WrapSeedCells \cap Idx(n, m)) :
                wgrid = [n |-> n, m |-> m,
                         a |-> [rc \in Idx(n, m) |-> IF rc \in alive THEN 1 ELSE 0]]
          /\ placed = << >>
       \/ /\ n >= Patterns("glider").n /\ m >= Patterns("glider").m
          /\ placed \in Idx(n, m)
          /\ wgrid = GliderAt(n, m, placed[1], placed[2])
    /\ running = FALSE
    /\ wsteps = 0
    /\ wcell = 1 /\ x_size = n /\ y_size = m
    /\ werr = "none" /\ wop = "main" /\ warg = << >>
    /\ NoWindow

NextWrap ==
    \/ wsteps < WrapSteps /\ MainLoopStep /\ UNCHANGED gvars
    \/ MiddleButton /\ UNCHANGED gvars
    \/ SpaceKey /\ UNCHANGED gvars

SpecWrap == InitWrap /\ [][NextWrap]_vars

\* ------------------------------------------- Start pressed again, and clicks
\* cell sizes and window sizes entered
CellSizes == {1, 2}
WinSizes == 1 .. MaxWin
\* np.random.choice over [0, 0] or [0, 1]: all dead, all alive or a diagonal
MainGrids(nr, nc) ==
    { Zeros(nr, nc),
      [n |-> nr, m |-> nc, a |-> [rc \in Idx(nr, nc) |-> 1]],
      [n |-> nr, m |-> nc, a |-> [rc \in Idx(nr, nc) |-> IF rc[1] = rc[2] THEN 1 ELSE 0]] }

\* main() up to its loop with any of these sizes
InitMain ==
    /\ wcell \in CellSizes
    /\ x_size \in WinSizes
    /\ y_size \in WinSizes
    /\ n = x_size \div wcell
    /\ m = y_size \div wcell
    /\ wgrid \in MainGrids(n, m)
    /\ placed = << >>
    /\ running = FALSE
    /\ wsteps = 0
    /\ werr = "none" /\ wop = "main" /\ warg = << >>
    /\ NoWindow

\* one main() looping while Start is pressed again, any number of times
NextStart ==
    \/ \E cs \in CellSizes, xs \in WinSizes, ys \in WinSizes : StartAgain(cs, xs, ys) /\ UNCHANGED gvars
    \/ wsteps < WrapSteps /\ MainLoopStep /\ UNCHANGED gvars
    \/ MainLoopIdle /\ UNCHANGED gvars
    \/ MiddleButton /\ UNCHANGED gvars
    \/ SpaceKey /\ UNCHANGED gvars

SpecStart == InitMain /\ [][NextStart]_vars

\* one main() whose first event is a press or a drag anywhere in its window
NextClick ==
    \/ wop = "main" /\ \E px \in 0 .. x_size - 1, py \in 0 .. y_size - 1, b \in {1, 3} :
                            MouseButtonDown(px, py, b) /\ UNCHANGED gvars
    \/ wop = "main" /\ \E px \in 0 .. x_size - 1, py \in 0 .. y_size - 1, b0 \in BOOLEAN, b2 \in BOOLEAN :
                            MouseMotion(px, py, b0, b2) /\ UNCHANGED gvars
    \/ wsteps < WrapSteps /\ MainLoopStep /\ UNCHANGED gvars
    \/ MainLoopIdle /\ UNCHANGED gvars
    \/ MiddleButton /\ UNCHANGED gvars
    \/ SpaceKey /\ UNCHANGED gvars

SpecClick == InitMain /\ [][NextClick]_vars

\* ================================================================== claims
\* (row, col) addresses a cell of the height x width grid
InRange(row, col) == 0 <= row /\ row < Height /\ 0 <= col /\ col < Width

\* The rule and the neighbourhood as the specification words them.
Alive(g, rc) == g.a[rc] = 1
Adjacent(rc, nb) ==
    /\ nb # rc
    /\ nb[1] - rc[1] \in {-1, 0, 1}
    /\ nb[2] - rc[2] \in {-1, 0, 1}
\* living neighbours inside the grid; cells beyond the edge do not exist
AliveNeighbours(g, rc) ==
    Cardinality({nb \in Idx(Height, Width) : Adjacent(rc, nb) /\ Alive(g, nb)})
LifeRule(alive, k) ==
    IF alive THEN (IF k = 2 \/ k = 3 THEN 1 ELSE 0) ELSE (IF k = 3 THEN 1 ELSE 0)

\* C1: one step of a grid (a height x width matrix of 0s and 1s) raises
\* nothing and leaves, in every cell, the rule applied to that cell's state
\* and clamp-boundary neighbour count in the grid before the step.
C1_StepAppliesRule ==
    [][(op' = "update_game" /\ IsGrid(grid)) =>
        /\ err' = "none"
        /\ grid'.n = Height /\ grid'.m = Width
        /\ \A rc \in Idx(Height, Width) :
              grid'.a[rc] = LifeRule(Alive(grid, rc), AliveNeighbours(grid, rc))]_vars

\* C1 witness: a step has run on a grid with a birth, a survival, a death of
\* overcrowding and a death of isolation in different cells.
C1_Witness ==
    /\ op = "update_game" /\ err = "none" /\ prev.set /\ IsGrid(prev.grid)
    /\ \E rc \in Idx(Height, Width) :
          ~Alive(prev.grid, rc) /\ AliveNeighbours(prev.grid, rc) = 3 /\ Alive(grid, rc)
    /\ \E rc \in Idx(Height, Width) :
          Alive(prev.grid, rc) /\ AliveNeighbours(prev.grid, rc) \in {2, 3} /\ Alive(grid, rc)
    /\ \E rc \in Idx(Height, Width) :
          Alive(prev.grid, rc) /\ AliveNeighbours(prev.grid, rc) > 3 /\ ~Alive(grid, rc)
    /\ \E rc \in Idx(Height, Width) :
          Alive(prev.grid, rc) /\ AliveNeighbours(prev.grid, rc) < 2 /\ ~Alive(grid, rc)

\* C2: in every reachable state, a step followed at once by an undo leaves the
\* grid and the generation counter as they were before the step, and the undo
\* returns true.
C2_StepUndoRestores ==
    [][(op = "update_game" /\ op' = "undo") =>
        /\ ret' = "True"
        /\ grid' = prev.grid
        /\ generation' = prev.generation]_vars

\* C3: the history never holds more than 50 snapshots.
C3_HistoryBounded == Len(history) <= HistoryCap

\* C3 witness: a step has pushed onto a full history, and the history is
\* still 50 long.
C3_Witness ==
    /\ op = "update_game" /\ err = "none"
    /\ generation > HistoryCap
    /\ Len(history) = HistoryCap

\* C4: after 51 steps in a row from a fresh engine the history holds the
\* grids of generations 1..50 in push order (generation 0 is evicted); each of
\* the next 50 undos returns true and restores the newest snapshot left, the
\* last of them the generation-1 grid; the 51st undo returns false.
C4_EvictOldestUndoNewest ==
    (run.valid /\ run.k = HistoryCap + 1) =>
        /\ run.u <= HistoryCap =>
              /\ history = SubSeq(run.gens, 2, HistoryCap + 1 - run.u)
              /\ grid = run.gens[HistoryCap + 2 - run.u]
              /\ generation = HistoryCap + 1 - run.u
              /\ run.u >= 1 => (op = "undo" /\ ret = "True")
        /\ run.u = HistoryCap + 1 =>
              /\ op = "undo" /\ ret = "False"
              /\ history = << >>
              /\ grid = run.gens[2]
              /\ generation = 1

\* C4 witness: the 51st undo after 51 steps has returned false, on a run whose
\* consecutive generations differ.
C4_Witness ==
    /\ run.valid /\ run.k = HistoryCap + 1 /\ run.u = HistoryCap + 1
    /\ ret = "False"
    /\ run.gens[1] # run.gens[2] /\ run.gens[2] # run.gens[3]

\* C5: the generation counter is never negative.
C5_GenerationNonNegative == generation >= 0

\* C6: undo on an empty history returns false, raises nothing and leaves the
\* grid, the history and the generation counter unchanged.
C6_UndoEmptyIsNoOp ==
    [][(op' = "undo" /\ history = << >>) =>
        /\ ret' = "False" /\ err' = "none"
        /\ grid' = grid /\ history' = history /\ generation' = generation]_vars

\* C6 witness: undo has returned false on a freshly built engine holding
\* alive cells.
C6_Witness ==
    /\ op = "undo" /\ ret = "False"
    /\ history = << >> /\ generation = 0
    /\ \E rc \in Idx(Height, Width) : Alive(grid, rc)

C8_ClickOutOfRangeSignals ==
    [][(op' = "handle_cell_click" /\ ~InRange(arg'[1], arg'[2])) =>
        (err' # "none" /\ grid' = grid)]_vars

\* C9: placing a pattern no larger than the grid raises nothing, makes the
\* rectangle at the clamped origin equal to the pattern and leaves every other
\* cell unchanged.
ClampedTarget(t, size, extent) ==
    IF t < 0 THEN 0 ELSE IF t > extent - size THEN extent - size ELSE t

C9_PatternPlacedClamped ==
    [][(op' = "apply_pattern" /\ IsGrid(grid)
          /\ Patterns(arg'[1]).n <= Height /\ Patterns(arg'[1]).m <= Width) =>
        LET pat == Patterns(arg'[1])
            r == ClampedTarget(arg'[2] - pat.n \div 2, pat.n, Height)
            c == ClampedTarget(arg'[3] - pat.m \div 2, pat.m, Width)
        IN /\ err' = "none"
           /\ 0 <= r /\ r + pat.n <= Height /\ 0 <= c /\ c + pat.m <= Width
           /\ grid'.n = Height /\ grid'.m = Width
           /\ \A rc \in Idx(Height, Width) :
                 IF /\ r <= rc[1] /\ rc[1] < r + pat.n
                    /\ c <= rc[2] /\ rc[2] < c + pat.m
                 THEN grid'.a[rc] = pat.a[<<rc[1] - r, rc[2] - c>>]
                 ELSE grid'.a[rc] = grid.a[rc]]_vars

\* C9 witness: a pattern that fits has been placed from a target above the
\* top edge and beyond the right edge, its origin clamped in both directions,
\* and an alive cell is left outside its rectangle.
C9_Witness ==
    /\ op = "apply_pattern" /\ err = "none"
    /\ LET pat == Patterns(arg[1])
           r == ClampedTarget(arg[2] - pat.n \div 2, pat.n, Height)
           c == ClampedTarget(arg[3] - pat.m \div 2, pat.m, Width)
       IN /\ pat.n <= Height /\ pat.m <= Width
          /\ arg[2] - pat.n \div 2 < 0
          /\ arg[3] - pat.m \div 2 > Width - pat.m
          /\ \E rc \in Idx(Height, Width) :
                /\ ~(r <= rc[1] /\ rc[1] < r + pat.n /\ c <= rc[2] /\ rc[2] < c + pat.m)
                /\ Alive(grid, rc)

\* C10: placing a pattern taller or wider than the grid completes without an
\* error.
C10_OversizePatternClips ==
    [][(op' = "apply_pattern"
          /\ (Patterns(arg'[1]).n > Height \/ Patterns(arg'[1]).m > Width)) =>
        err' = "none"]_vars

\* C11: after a successful load (a file holding a height x width matrix of 0s
\* and 1s) the grid equals the loaded matrix, the generation counter is 0 and
\* the history is empty, and an undo right after it returns false and leaves
\* the loaded grid.
C11_LoadResetsDerivedState ==
    [][/\ (op' = "load_state" /\ IsGrid(arg'[1])) =>
              (grid' = arg'[1] /\ generation' = 0 /\ history' = << >>)
       /\ (op = "load_state" /\ IsGrid(arg[1]) /\ op' = "undo") =>
              (ret' = "False" /\ grid' = grid)]_vars

\* a cell value other than 0 or 1
NonBinary(f) == \E rc \in Idx(f.n, f.m) : f.a[rc] \notin {0, 1}

\* C12: a load whose file holds a cell value other than 0 or 1 signals
\* MalformedState and leaves the grid exactly as it was.
C12_MalformedLoadRejected ==
    [][(op' = "load_state" /\ NonBinary(arg'[1])) =>
        (err' = "MalformedState" /\ grid' = grid)]_vars

\* C13: in every reachable state the live grid and every snapshot in the
\* history have the height and width the engine was built with and hold only
\* 0s and 1s.
C13_GridAndSnapshotsWellFormed ==
    /\ IsGrid(grid)
    /\ \A k \in 1 .. Len(history) : IsGrid(history[k])

\* C14: new_game, in whatever state it is called, leaves an all-dead
\* height x width grid, generation 0, an empty history and the timer stopped,
\* and no timer-driven step comes directly after it.
C14_NewGameResets ==
    [][/\ op' = "new_game" =>
              /\ grid' = Zeros(Height, Width)
              /\ generation' = 0
              /\ history' = << >>
              /\ ~timerActive'
       /\ op = "new_game" => op' # "update_game"]_vars

\* C14 witness: new_game has been called with the timer running, a generation
\* above 0 and a non-empty history.
C14_Witness ==
    /\ op = "new_game"
    /\ arg[1] = TRUE /\ arg[2] > 0 /\ arg[3] > 0
    /\ ~timerActive /\ generation = 0 /\ history = << >>

AllDead(g) == \A rc \in Idx(g.n, g.m) : g.a[rc] = 0

\* C15: clear leaves every cell of the grid dead and the generation counter
\* and the history, every snapshot of it, as they were.
C15_ClearKeepsGenerationAndHistory ==
    [][op' = "clear" =>
        /\ grid'.n = grid.n /\ grid'.m = grid.m /\ AllDead(grid')
        /\ generation' = generation
        /\ history' = history]_vars

\* C15 witness: clear has run at a generation above 0 with a history whose
\* newest snapshot holds alive cells.
C15_Witness ==
    /\ op = "clear" /\ AllDead(grid)
    /\ generation > 0
    /\ history # << >> /\ ~AllDead(history[Len(history)])

\* the operations a user issues, as opposed to the timer's tick
Commands == {"toggle_cell", "handle_cell_click", "apply_pattern", "clear", "randomize",
             "load_state", "undo", "toggle_game", "new_game"}

C18_ToggleTwiceRestores ==
    [][(/\ op = "toggle_cell" /\ op' = "toggle_cell" /\ arg' = arg
        /\ InRange(arg[1], arg[2])
        /\ IsGrid(prev.grid)) =>
        (grid' = prev.grid /\ err' = "none")]_vars

\* C18 witness: the second of two toggles of the same in-range cell has run,
\* on a grid that had a history behind it, and undid the change of the first.
C18_Witness ==
    /\ op = "toggle_cell" /\ edits = 2 /\ InRange(arg[1], arg[2])
    /\ prev.set /\ prev.after = "toggle_cell"
    /\ grid.a[<<arg[1], arg[2]>>] # prev.grid.a[<<arg[1], arg[2]>>]
    /\ history # << >>

InPlaceEdits == {"toggle_cell", "handle_cell_click", "clear", "apply_pattern"}

\* C20: no edit of the live grid (toggle, set, clear, apply-pattern) changes
\* the history: its length and every snapshot in it stay as they were, whatever
\* steps and undos came before, an undo directly before the edit included.
C20_EditsLeaveSnapshots ==
    [][op' \in InPlaceEdits => history' = history]_vars

\* C20 witness: a cell of the grid an undo has just restored was toggled,
\* an older snapshot being still in the history.
C20_Witness ==
    /\ op = "toggle_cell" /\ InRange(arg[1], arg[2])
    /\ prev.set /\ prev.after = "undo" /\ grid # prev.grid
    /\ history # << >>

\* C17: on a wrap-boundary grid with room for the 3 x 3 glider, the glider
\* placed at any position of an otherwise dead grid is, after exactly 4 steps,
\* the glider one row down and one column to the right (modulo the grid's
\* size), every other cell dead.
C17_GliderTranslates ==
    (placed # << >> /\ wsteps = 4) =>
        wgrid = GliderAt(n, m, placed[1] + 1, placed[2] + 1)

\* C17 amended: on a wrap-boundary grid of at least 5 rows and 5 columns, the
\* glider placed at any position of an otherwise dead grid is, after exactly 4
\* steps, the glider one row down and one column to the right (modulo the
\* grid's size), every other cell dead.
C17_GliderTranslatesFromFive ==
    (placed # << >> /\ wsteps = 4 /\ n >= 5 /\ m >= 5) =>
        wgrid = GliderAt(n, m, placed[1] + 1, placed[2] + 1)

\* C17 witness: four steps have been made from a glider that lay across the
\* last and the first row and column of a grid of at least 5 x 5 cells.
C17_Witness ==
    /\ placed # << >> /\ wsteps = 4 /\ n >= 5 /\ m >= 5
    /\ placed[1] = n - 1 /\ placed[2] = m - 2
    /\ wgrid = GliderAt(n, m, 0, m - 1)

\* cells next to rc on the torus of n x m cells, rc itself excluded
TorusNeighbours(rc) ==
    {nb \in Idx(n, m) : /\ nb # rc
                        /\ \E dr \in {-1, 0, 1}, dc \in {-1, 0, 1} :
                              nb = <<(rc[1] + dr) % n, (rc[2] + dc) % m>>}

\* C19: under either boundary policy the neighbour count of every cell of
\* every grid is in 0 .. 8, leaves the cell itself out and counts each
\* neighbouring cell at most once, so that it is at most the number of alive
\* cells among the distinct neighbours; wrap grids of 1 or 2 rows or columns
\* and clamp cells on edges and corners included.
C19_NeighbourCountDistinct ==
    /\ \A rc \in Idx(n, m) :
          /\ neighbors(wgrid, rc[1], rc[2]) \in 0 .. 8
          /\ neighbors(wgrid, rc[1], rc[2])
                <= Cardinality({nb \in TorusNeighbours(rc) : Alive(wgrid, nb)})
    /\ \A g \in EditSeeds : \A rc \in Idx(Height, Width) :
          /\ CountNeighbors(g, rc[1], rc[2]) \in 0 .. 8
          /\ CountNeighbors(g, rc[1], rc[2]) <= AliveNeighbours(g, rc)

\* C21: a toggle_cell with an in-range (row, col) leaves every other cell,
\* the generation counter and the history as they were, and an undo that
\* follows it with a snapshot in the history returns true and leaves the grid
\* equal to the newest snapshot, the one the last step saved, without the edit.
C21_ToggleNotRecorded ==
    [][/\ (op' = "toggle_cell" /\ InRange(arg'[1], arg'[2])) =>
              /\ grid'.n = grid.n /\ grid'.m = grid.m
              /\ \A rc \in Idx(grid.n, grid.m) :
                    rc # <<arg'[1], arg'[2]>> => grid'.a[rc] = grid.a[rc]
              /\ generation' = generation
              /\ history' = history
       /\ (op = "toggle_cell" /\ InRange(arg[1], arg[2]) /\ op' = "undo"
              /\ history # << >>) =>
              /\ ret' = "True"
              /\ grid' = history[Len(history)]
              /\ history' = SubSeq(history, 1, Len(history) - 1)]_vars

\* C21 witness: an undo directly after a toggle has returned true and left a
\* grid with alive cells, an older snapshot being still in the history.
C21_Witness ==
    /\ op = "undo" /\ ret = "True" /\ prev.after = "toggle_cell"
    /\ ~AllDead(grid)
    /\ history # << >>

\* C22: with Start pressed more than once, every game_of_life call of a
\* thread loops over exactly the rows and columns of that thread's own grid,
\* and a later Start leaves the bounds used for the grid of a simulation
\* already running equal to that grid's shape.
C22_ThreadLoopsOverOwnGrid ==
    [][/\ wop' = "game_of_life" => (n = wgrid.n /\ m = wgrid.m)
       /\ wop' = "start" => (n' = wgrid.n /\ m' = wgrid.m)]_vars

\* C23: every press and every drag with a button held, at any position of the
\* x_size by y_size window and for any cell size, computes an index (i, j)
\* with 0 <= i < n and 0 <= j < m, n = x_size // cell_size and
\* m = y_size // cell_size, and so writes a cell of the grid.
C23_MouseIndexInGrid ==
    [][(\/ wop' = "mousebuttondown"
        \/ wop' = "mousemotion" /\ (warg'[3] \/ warg'[4])) =>
        LET i == warg'[1] \div wcell
            j == warg'[2] \div wcell
        IN /\ n = x_size \div wcell /\ m = y_size \div wcell
           /\ 0 <= i /\ i < n /\ 0 <= j /\ j < m
           /\ werr' = "none"]_vars

====
